---- MODULE Spec2Model ----
(***************************************************************************)
(* mfe-store: a cache-backed key/value store persisted in IndexedDB and    *)
(* synchronised between Store Engines over a BroadcastChannel.             *)
(*                                                                         *)
(* Every Store Engine (one createStore call) owns a cache, a listener      *)
(* registry, a lazily opened database promise and a channel handle.  All   *)
(* engines share one database/table and one channel name.  An async        *)
(* operation runs in up to four steps: its synchronous prefix (the call),  *)
(* the continuation after `await getDb()` that creates the IndexedDB       *)
(* request, the execution of the request by the database, and the          *)
(* continuation after the request's success/error event.                   *)
(***************************************************************************)
EXTENDS Naturals, Sequences, FiniteSets, TLC

\* ------------------------------------------------------------------------
\* Bounds and input sets
\* ------------------------------------------------------------------------
MaxWriteOps == 2    \* calls of the single writer (SpecWrite)
MaxLocalOps == 3    \* awaited calls of the context under test (SpecRound)
MaxRemoteOps == 1   \* calls of the other context (SpecRound)
MaxSyncOps == 2     \* calls of both contexts together (SpecSync)
MaxFail == 1        \* failures of the Persistent Store
MaxStoreOps == 2    \* awaited writes of the writing context (SpecReload)
MaxReadOps == 2     \* reads of the reading context (SpecReload)
MaxEventOps == 2    \* awaited calls of the context under test (SpecEvents)
MaxHandlers == 2    \* subscribeToKey calls (SpecEvents)
MaxRegistryOps == 2 \* awaited calls of the context under test (SpecRegistry)
MaxRaceOps == 2     \* calls of the context under test, not awaited (SpecRace)
MaxHandles == 3     \* subscribe calls whose closure the caller keeps (SpecHandles)
MaxSharedOps == 2   \* awaited set calls of the writing engine (SpecShared)
MaxNameOps == 2     \* awaited set calls of the context under test (SpecNames)
MaxSoloOps == 3     \* calls of the only context, not awaited (SpecSolo)
MaxCacheOps == 2    \* calls of the context under test, not awaited (SpecCache)
MaxSendOps == 2     \* awaited writes of the sending context (SpecInbound)
MaxHydrateOps == 1  \* awaited reads of the receiving context (SpecInbound)
MaxRecoverOps == 3  \* awaited calls of the context under test (SpecRecover)

Engines == {"A", "B"}
Keys == {"k1", "k2"}
Values == {"v1", "v2"}
ListenerIds == {"L1", "L2"}

Undef == "undefined"
Absent == "absent"
SetArgs == Values \cup {Undef}
CacheVals == SetArgs \cup {Absent}

\* channelName (defaults to dbName) and the keys, as character sequences
\* (store key k1 is the string "a:k"; "k3" names the string "k", a key only
\* standalone subscribers use)
channelName == <<"m", "f", "e">>
otherChannel == <<"m", "f">>
colonChannel == <<"m", "f", "e", ":", "a">>
KeyName(k) ==
  IF k = "k1" THEN <<"a", ":", "k">>
  ELSE IF k = "k2" THEN <<"k", "2">>
  ELSE <<"k">>

\* options.validators: engine A validates k1 (only "v1" passes), B has none
HasValidator(e, k) == e = "A" /\ k = "k1"
ValidatorThrows(e, k, v) == v # "v1"

VARIABLES
  cache,      \* [Engines -> [Keys -> CacheVals]]; Absent: !cache.has(key)
  listeners,  \* [Engines -> Seq([key, ls])]: the Map, in insertion order
  handles,    \* [Engines -> SUBSET (Keys \X ListenerIds)]: unsubscribe closures held by callers
  dbPromise,  \* [Engines -> Nat]: 0 is null, else an index into promState
  promState,  \* [Engines -> Seq({"pending","open","failed"})]: promises of openDatabase
  closed,     \* [Engines -> BOOLEAN]: channel.close() was called
  waitDb,     \* [Engines -> Seq(op)]: operations suspended at `await getDb()`
  dbq,        \* Seq(op): requests created and not yet executed, in creation order
  done,       \* [Engines -> Seq(op)]: executed requests whose event is not yet handled
  inbox,      \* [Engines -> Seq(msg)]: posted messages not yet delivered
  db,         \* [Keys -> CacheVals]: the object store; Absent: no entry
  last,       \* what the most recent step did: outcome, return value, effects in order
  trail,      \* [Engines -> [Keys -> ...]]: the recent awaited local calls on a key (history)
  nOps,       \* [Engines -> Nat]: calls made so far
  nFail,      \* failures injected so far
  posted, succeeded,    \* messages posted / set, delete, clear calls resolved
  handlers,   \* [Engines -> Seq([id, name, ch, key, l, on])]: the window's listeners added
              \* by subscribeToKey(ch, key, l); on: not removed
  unsaved,    \* SUBSET (Keys \X SetArgs): <<key, value>> of the sets whose put (or the
              \* opening of the database) failed and was not made good since (history)
  window,     \* [Engines -> Engines]: the window (execution context) an engine lives in,
              \* named after an engine; handlers[w] are the listeners of window w
  issued      \* [Engines -> Seq([key, l, called])]: the unsubscribe closures returned by
              \* the subscribe calls whose result the caller keeps apart (history)

vars == <<cache, listeners, handles, dbPromise, promState, closed, waitDb, dbq,
          done, inbox, db, last, trail, nOps, nFail, posted, succeeded, handlers, unsaved,
          window, issued>>

\* ------------------------------------------------------------------------
\* Map and Set helpers (insertion ordered, as in JavaScript)
\* ------------------------------------------------------------------------
SeqHas(s, x) == \E i \in 1..Len(s) : s[i] = x
\* variant: a listener that is registered again is kept a second time
SetAdd_Duplicates(s, x) == Append(s, x)
\* Set.prototype.add
SetAdd(s, x) == IF SeqHas(s, x) THEN s ELSE Append(s, x)
SetDelete(s, x) == SelectSeq(s, LAMBDA y : y # x)

MapHas(m, k) == \E i \in 1..Len(m) : m[i].key = k
MapGet(m, k) == IF MapHas(m, k) THEN m[CHOOSE i \in 1..Len(m) : m[i].key = k].ls ELSE <<>>
MapSet(m, k, ls) ==
  IF MapHas(m, k)
  THEN [i \in 1..Len(m) |-> IF m[i].key = k THEN [key |-> k, ls |-> ls] ELSE m[i]]
  ELSE Append(m, [key |-> k, ls |-> ls])
MapDelete(m, k) == SelectSeq(m, LAMBDA ent : ent.key # k)

CacheHas(e, k) == cache[e][k] # Absent
CacheGet(e, k) == IF cache[e][k] = Absent THEN Undef ELSE cache[e][k]
EmptyCache == [k \in Keys |-> Absent]
\* variant: a cache hit returns undefined
CacheRead_Undefined(e, k) == Undef
\* `return cache.get(key)` on a cache hit
CacheRead(e, k) == cache[e][k]

\* ------------------------------------------------------------------------
\* Records
\* ------------------------------------------------------------------------
NoOp == [id |-> 0, e |-> "-", type |-> "none", key |-> Undef, value |-> Undef,
         old |-> Undef, prom |-> 0, ok |-> TRUE, res |-> Undef, all |-> EmptyCache]

NewOp(e, type, key, value, old, prom) ==
  [id |-> nOps[e] + 1, e |-> e, type |-> type, key |-> key, value |-> value,
   old |-> old, prom |-> prom, ok |-> TRUE, res |-> Undef, all |-> EmptyCache]

BroadcastMessage(type, key, value, oldValue) ==
  [type |-> type, key |-> key, value |-> value, oldValue |-> oldValue]

Step(act, e, op, out, ret, fx) ==
  [act |-> act, e |-> e, op |-> op, out |-> out, ret |-> ret, fx |-> fx]

\* a step that resolves or rejects no call and has no observable effect
Quiet == Step("quiet", "-", NoOp, "none", Undef, <<>>)

\* ------------------------------------------------------------------------
\* Event helpers, notifyListeners, postMessage
\* ------------------------------------------------------------------------
createEventName(ch, key) == <<"s", "t", "o", "r", "e", ":">> \o ch \o <<":">> \o key

emitLocalEvent(ch, k, value, oldValue) ==
  << <<"event", createEventName(ch, KeyName(k)), value, oldValue>> >>


\* variant: the CustomEvent is dispatched before the listeners run
notifyListeners_EventFirst(e, k, value, oldValue) ==
  LET keyListeners == MapGet(listeners[e], k)
  IN  emitLocalEvent(channelName, k, value, oldValue)
      \o [i \in 1..Len(keyListeners) |-> <<"listener", keyListeners[i], k, value, oldValue>>]

\* the listener calls and the CustomEvent of one notifyListeners call, in order
notifyListeners(e, k, value, oldValue) ==
  LET keyListeners == MapGet(listeners[e], k)
  IN  [i \in 1..Len(keyListeners) |-> <<"listener", keyListeners[i], k, value, oldValue>>]
      \o emitLocalEvent(channelName, k, value, oldValue)

\* variant: only one key of the registry is notified
NotifyAll_OneKey(e, i) ==
  IF i > Len(listeners[e]) THEN <<>> ELSE notifyListeners(e, listeners[e][i].key, Undef, Undef)

\* listeners.forEach((_, key) => notifyListeners(key, undefined, undefined))
RECURSIVE NotifyAll(_, _)
NotifyAll(e, i) ==
  IF i > Len(listeners[e]) THEN <<>>
  ELSE notifyListeners(e, listeners[e][i].key, Undef, Undef) \o NotifyAll(e, i + 1)

\* channel.postMessage throws on a closed channel
PostThrows(e) == closed[e]
postMessage(e, msg) == IF PostThrows(e) THEN <<>> ELSE << <<"post", msg>> >>

\* the messages among the effects of a step, and their delivery: a posted
\* message is queued for every other engine whose channel is open
Posts(fx) ==
  LET ps == SelectSeq(fx, LAMBDA x : x[1] = "post")
  IN  [i \in 1..Len(ps) |-> ps[i][2]]
Broadcast(e, box, fx) ==
  [r \in Engines |-> IF r # e /\ ~closed[r] THEN box[r] \o Posts(fx) ELSE box[r]]

ListenerCalls(fx) == SelectSeq(fx, LAMBDA x : x[1] = "listener")
Events(fx) == SelectSeq(fx, LAMBDA x : x[1] = "event")

\* variant: a removed handler still runs
HandlerCalls_Removed(e, ev) ==
  LET hs == SelectSeq(handlers[window[e]], LAMBDA h : h.name = ev[2])
  IN  [i \in 1..Len(hs) |-> <<"handler", hs[i].id, hs[i].l, ev[3], ev[4]>>]

\* the handlers of subscribeToKey that window.dispatchEvent runs for an event:
\* those added for the event's name and not removed, in order of registration;
\* each calls its listener with the event's detail
HandlerCalls(e, ev) ==
  LET hs == SelectSeq(handlers[window[e]], LAMBDA h : h.on /\ h.name = ev[2])
  IN  [i \in 1..Len(hs) |-> <<"handler", hs[i].id, hs[i].l, ev[3], ev[4]>>]

\* the effects of a step with every dispatched event followed by the calls
\* of its handlers (dispatchEvent is synchronous)
RECURSIVE Dispatch(_, _)
Dispatch(e, fx) ==
  IF fx = <<>> THEN <<>>
  ELSE <<Head(fx)>>
       \o (IF Head(fx)[1] = "event" THEN HandlerCalls(e, Head(fx)) ELSE <<>>)
       \o Dispatch(e, Tail(fx))

Handled(fx) == SelectSeq(fx, LAMBDA x : x[1] = "handler")

\* ------------------------------------------------------------------------
\* History of the awaited local calls on a key (used to state sequences)
\* ------------------------------------------------------------------------
NoTrail == [chain |-> <<>>, inb |-> FALSE, rdb |-> FALSE]
\* an entry of the history; for a clear it also keeps the keys that had a
\* listener in the engine's registry when clear was called
KeysOf(m) == {m[i].key : i \in 1..Len(m)}
Entry(op) == [type |-> op.type, v |-> op.value, st |-> "inflight", id |-> op.id,
              subs |-> IF op.type = "clear" THEN KeysOf(listeners[op.e]) ELSE {}]
LastOf(s) == s[Len(s)]
Awaited(t) == t.chain # <<>> /\ LastOf(t.chain).st = "ok"
KeepTwo(s) == IF Len(s) > 2 THEN SubSeq(s, Len(s) - 1, Len(s)) ELSE s

\* a call on the key: it extends the chain when the previous call has resolved
TrailCall(t, op, out) ==
  IF out \notin {"pending", "ok"} THEN NoTrail
  ELSE LET ent == [Entry(op) EXCEPT !.st = IF out = "ok" THEN "ok" ELSE "inflight"]
       IN  IF Awaited(t) THEN [t EXCEPT !.chain = KeepTwo(@) \o <<ent>>]
           ELSE [NoTrail EXCEPT !.chain = <<ent>>]

\* the continuation of op ran: the call resolved or rejected
TrailDone(t, op, out) ==
  IF t.chain # <<>> /\ LastOf(t.chain).id = op.id /\ out = "ok"
  THEN [t EXCEPT !.chain[Len(t.chain)].st = "ok"]
  ELSE NoTrail

TrailInbound(t) == IF t.chain = <<>> THEN t ELSE [t EXCEPT !.inb = TRUE]
TrailRemoteWrite(t) == IF t.chain = <<>> THEN t ELSE [t EXCEPT !.rdb = TRUE]

\* ------------------------------------------------------------------------
\* Initial state: after createStore in every context, empty database
\* ------------------------------------------------------------------------
\* the stores just created, whatever the windows they were created in
InitStores ==
  /\ cache = [e \in Engines |-> EmptyCache]
  /\ listeners = [e \in Engines |-> <<>>]
  /\ handles = [e \in Engines |-> {}]
  /\ dbPromise = [e \in Engines |-> 0]
  /\ promState = [e \in Engines |-> <<>>]
  /\ closed = [e \in Engines |-> FALSE]
  /\ waitDb = [e \in Engines |-> <<>>]
  /\ dbq = <<>>
  /\ done = [e \in Engines |-> <<>>]
  /\ inbox = [e \in Engines |-> <<>>]
  /\ db = [k \in Keys |-> Absent]
  /\ last = Quiet
  /\ trail = [e \in Engines |-> [k \in Keys |-> NoTrail]]
  /\ nOps = [e \in Engines |-> 0]
  /\ nFail = 0
  /\ posted = 0 /\ succeeded = 0
  /\ handlers = [e \in Engines |-> <<>>]
  /\ unsaved = {}
  /\ issued = [e \in Engines |-> <<>>]

\* every engine in a window (tab) of its own
Init == InitStores /\ window = [e \in Engines |-> e]

\* both engines created in the same window (two micro frontends of one page)
InitShared == InitStores /\ window = [e \in Engines |-> "A"]

\* ------------------------------------------------------------------------
\* getDb and `await getDb()`
\* ------------------------------------------------------------------------
\* the promise getDb returns: dbPromise, or a new one when dbPromise is null
getDb(e) == IF dbPromise[e] = 0 THEN Len(promState[e]) + 1 ELSE dbPromise[e]
getDbState(e) == IF dbPromise[e] = 0 THEN "pending" ELSE promState[e][dbPromise[e]]

\* `const db = await getDb()` followed by the db helper's request creation.
\* On a settled promise the continuation is a microtask of the calling task:
\* the request is created (or the rejection thrown) before any other task
\* of this context runs, so it belongs to the calling step.
AwaitDbOut(e) == IF getDbState(e) = "failed" THEN "persist" ELSE "pending"

AwaitDb(e, op) ==
  /\ dbPromise' = [dbPromise EXCEPT ![e] = getDb(e)]
  /\ promState' = [promState EXCEPT ![e] = IF dbPromise[e] = 0 THEN Append(@, "pending") ELSE @]
  /\ waitDb' = [waitDb EXCEPT ![e] = IF getDbState(e) = "pending" THEN Append(@, op) ELSE @]
  /\ dbq' = IF getDbState(e) = "open" THEN Append(dbq, op) ELSE dbq

\* ------------------------------------------------------------------------
\* Public API: the synchronous prefix of each call
\* ------------------------------------------------------------------------
Get(e, k) ==
  /\ nOps' = [nOps EXCEPT ![e] = @ + 1]
  /\ IF CacheHas(e, k)
     THEN /\ last' = Step("call", e, NewOp(e, "get", k, Undef, Undef, 0), "ok", CacheRead(e, k), <<>>)
          /\ trail' = [trail EXCEPT ![e][k] = TrailCall(@, NewOp(e, "get", k, Undef, Undef, 0), "ok")]
          /\ UNCHANGED <<window, issued, unsaved, handlers, dbPromise, promState, waitDb, dbq>>
     ELSE /\ AwaitDb(e, NewOp(e, "get", k, Undef, Undef, getDb(e)))
          /\ last' = Step("call", e, NewOp(e, "get", k, Undef, Undef, getDb(e)), AwaitDbOut(e), Undef, <<>>)
          /\ trail' = [trail EXCEPT ![e][k] =
                         TrailCall(@, NewOp(e, "get", k, Undef, Undef, getDb(e)), AwaitDbOut(e))]
  /\ UNCHANGED <<window, issued, unsaved, handlers, cache, listeners, handles, closed, done, inbox, db, nFail, posted, succeeded>>


\* variant: set without the validator gate
SetRejects_NoGate(e, k, v) == FALSE

\* the validator gate of set: validators?.[key] throws on the value
SetRejects(e, k, v) == HasValidator(e, k) /\ ValidatorThrows(e, k, v)

\* variant: oldValue is not read from the cache
OldValue_Missing(e, k) == Undef

\* oldValue as read by set and delete
OldValue(e, k) == CacheGet(e, k)

Set(e, k, v) ==
  /\ nOps' = [nOps EXCEPT ![e] = @ + 1]
  /\ IF SetRejects(e, k, v)
     THEN /\ last' = Step("call", e, NewOp(e, "set", k, v, Undef, 0), "validation", Undef, <<>>)
          /\ trail' = [trail EXCEPT ![e][k] = NoTrail]
          /\ UNCHANGED <<window, issued, unsaved, handlers, cache, dbPromise, promState, waitDb, dbq>>
     ELSE /\ cache' = [cache EXCEPT ![e][k] = v]
          /\ AwaitDb(e, NewOp(e, "set", k, v, OldValue(e, k), getDb(e)))
          /\ last' = Step("call", e, NewOp(e, "set", k, v, OldValue(e, k), getDb(e)), AwaitDbOut(e), Undef, <<>>)
          /\ trail' = [trail EXCEPT ![e][k] =
                         TrailCall(@, NewOp(e, "set", k, v, OldValue(e, k), getDb(e)), AwaitDbOut(e))]
  /\ UNCHANGED <<window, issued, unsaved, handlers, listeners, handles, closed, done, inbox, db, nFail, posted, succeeded>>

Del(e, k) ==
  /\ nOps' = [nOps EXCEPT ![e] = @ + 1]
  /\ cache' = [cache EXCEPT ![e][k] = Absent]
  /\ AwaitDb(e, NewOp(e, "delete", k, Undef, OldValue(e, k), getDb(e)))
  /\ last' = Step("call", e, NewOp(e, "delete", k, Undef, OldValue(e, k), getDb(e)), AwaitDbOut(e), Undef, <<>>)
  /\ trail' = [trail EXCEPT ![e][k] =
                 TrailCall(@, NewOp(e, "delete", k, Undef, OldValue(e, k), getDb(e)), AwaitDbOut(e))]
  /\ UNCHANGED <<window, issued, unsaved, handlers, listeners, handles, closed, done, inbox, db, nFail, posted, succeeded>>

GetAll(e) ==
  /\ nOps' = [nOps EXCEPT ![e] = @ + 1]
  /\ AwaitDb(e, NewOp(e, "getAll", Undef, Undef, Undef, getDb(e)))
  /\ last' = Step("call", e, NewOp(e, "getAll", Undef, Undef, Undef, getDb(e)), AwaitDbOut(e), Undef, <<>>)
  /\ trail' = [trail EXCEPT ![e] = [k \in Keys |-> NoTrail]]
  /\ UNCHANGED <<window, issued, unsaved, handlers, cache, listeners, handles, closed, done, inbox, db, nFail, posted, succeeded>>

Clear(e) ==
  /\ nOps' = [nOps EXCEPT ![e] = @ + 1]
  /\ cache' = [cache EXCEPT ![e] = EmptyCache]
  /\ AwaitDb(e, NewOp(e, "clear", Undef, Undef, Undef, getDb(e)))
  /\ last' = Step("call", e, NewOp(e, "clear", Undef, Undef, Undef, getDb(e)), AwaitDbOut(e), Undef, <<>>)
  /\ trail' = [trail EXCEPT ![e] = [k \in Keys |->
                 TrailCall(@[k], NewOp(e, "clear", Undef, Undef, Undef, getDb(e)), AwaitDbOut(e))]]
  /\ UNCHANGED <<window, issued, unsaved, handlers, listeners, handles, closed, done, inbox, db, nFail, posted, succeeded>>

Subscribe(e, k, l) ==
  /\ listeners' = [listeners EXCEPT ![e] = MapSet(@, k, SetAdd(MapGet(@, k), l))]
  /\ handles' = [handles EXCEPT ![e] = @ \cup {<<k, l>>}]
  /\ last' = Quiet
  /\ UNCHANGED <<window, issued, unsaved, handlers, cache, dbPromise, promState, closed, waitDb, dbq, done, inbox, db,
                 trail, nOps, nFail, posted, succeeded>>

\* variant: the closure removes a listener of the key even when its own is gone
UnsubscribeMap_AnyListener(m, k, l) ==
  IF MapHas(m, k)
  THEN IF Len(MapGet(m, k)) <= 1
       THEN MapDelete(m, k)
       ELSE MapSet(m, k, IF SeqHas(MapGet(m, k), l) THEN SetDelete(MapGet(m, k), l)
                         ELSE Tail(MapGet(m, k)))
  ELSE m

\* variant: the key stays in the registry when its last listener is removed
UnsubscribeMap_KeepsKey(m, k, l) ==
  IF MapHas(m, k) THEN MapSet(m, k, SetDelete(MapGet(m, k), l)) ELSE m

\* the closure returned by subscribe(k, l)
UnsubscribeMap(m, k, l) ==
  IF MapHas(m, k)
  THEN IF Len(SetDelete(MapGet(m, k), l)) = 0
       THEN MapDelete(m, k)
       ELSE MapSet(m, k, SetDelete(MapGet(m, k), l))
  ELSE m

\* a call of the closure; the step records the closure's key and listener
\* and whether the previous step was a call of the same closure
UnsubscribeOp(k, l) == [NoOp EXCEPT !.type = "unsubscribe", !.key = k, !.value = l]

Unsubscribe(e, k, l) ==
  /\ <<k, l>> \in handles[e]
  /\ listeners' = [listeners EXCEPT ![e] = UnsubscribeMap(@, k, l)]
  /\ last' = Step("unsubscribe", e, UnsubscribeOp(k, l),
                  IF last.act = "unsubscribe" /\ last.e = e /\ last.op = UnsubscribeOp(k, l)
                  THEN "repeat" ELSE "ok", Undef, <<>>)
  /\ UNCHANGED <<window, issued, unsaved, handlers, cache, handles, dbPromise, promState, closed, waitDb, dbq, done, inbox,
                 db, trail, nOps, nFail, posted, succeeded>>

\* subscribe(k, l) by a caller that keeps the closure it returns: the same
\* call as Subscribe, with the closure recorded in `issued`
SubscribeHandle(e, k, l) ==
  /\ listeners' = [listeners EXCEPT ![e] = MapSet(@, k, SetAdd(MapGet(@, k), l))]
  /\ handles' = [handles EXCEPT ![e] = @ \cup {<<k, l>>}]
  /\ issued' = [issued EXCEPT ![e] = Append(@, [key |-> k, l |-> l, called |-> FALSE])]
  /\ last' = Quiet
  /\ UNCHANGED <<window, unsaved, handlers, cache, dbPromise, promState, closed, waitDb, dbq, done, inbox, db,
                 trail, nOps, nFail, posted, succeeded>>

\* a call of the i-th closure of `issued`: the same call as Unsubscribe; the
\* step records in op.id which closure it was
CallHandle(e, i) ==
  /\ i \in 1..Len(issued[e])
  /\ listeners' = [listeners EXCEPT ![e] = UnsubscribeMap(@, issued[e][i].key, issued[e][i].l)]
  /\ issued' = [issued EXCEPT ![e][i].called = TRUE]
  /\ last' = Step("unsubscribe", e, [UnsubscribeOp(issued[e][i].key, issued[e][i].l) EXCEPT !.id = i],
                  IF issued[e][i].called THEN "repeat" ELSE "ok", Undef, <<>>)
  /\ UNCHANGED <<window, unsaved, handlers, cache, handles, dbPromise, promState, closed, waitDb, dbq, done, inbox,
                 db, trail, nOps, nFail, posted, succeeded>>

\* subscribeToKey(ch, k, l) in the window of engine e:
\* window.addEventListener(eventName, handler)
SubscribeToKey(e, ch, k, l) ==
  /\ handlers' = [handlers EXCEPT ![window[e]] =
        Append(@, [id |-> Len(@) + 1, name |-> createEventName(ch, KeyName(k)),
                   ch |-> ch, key |-> k, l |-> l, on |-> TRUE])]
  /\ last' = Quiet
  /\ UNCHANGED <<window, issued, unsaved, cache, listeners, handles, dbPromise, promState, closed, waitDb, dbq, done,
                 inbox, db, trail, nOps, nFail, posted, succeeded>>

\* the closure returned by subscribeToKey: window.removeEventListener
UnsubscribeFromKey(e, id) ==
  /\ id \in 1..Len(handlers[window[e]])
  /\ handlers' = [handlers EXCEPT ![window[e]][id].on = FALSE]
  /\ last' = Quiet
  /\ UNCHANGED <<window, issued, unsaved, cache, listeners, handles, dbPromise, promState, closed, waitDb, dbq, done,
                 inbox, db, trail, nOps, nFail, posted, succeeded>>

\* variant: destroy leaves the cache as it is
Destroy_KeepsCache(e) ==
  /\ closed' = [closed EXCEPT ![e] = TRUE]
  /\ inbox' = [inbox EXCEPT ![e] = <<>>]
  /\ listeners' = [listeners EXCEPT ![e] = <<>>]
  /\ dbPromise' = [dbPromise EXCEPT ![e] = 0]
  /\ trail' = [trail EXCEPT ![e] = [k \in Keys |-> NoTrail]]
  /\ last' = Step("destroy", e, NoOp, "none", Undef, <<>>)
  /\ UNCHANGED <<window, issued, unsaved, handlers, cache, handles, promState, waitDb, dbq, done, db, nOps, nFail, posted, succeeded>>

\* destroy(): close the channel, clear the registry and the cache, drop dbPromise
Destroy(e) ==
  /\ closed' = [closed EXCEPT ![e] = TRUE]
  /\ inbox' = [inbox EXCEPT ![e] = <<>>]
  /\ listeners' = [listeners EXCEPT ![e] = <<>>]
  /\ cache' = [cache EXCEPT ![e] = EmptyCache]
  /\ dbPromise' = [dbPromise EXCEPT ![e] = 0]
  /\ trail' = [trail EXCEPT ![e] = [k \in Keys |-> NoTrail]]
  /\ last' = Step("destroy", e, NoOp, "none", Undef, <<>>)
  /\ UNCHANGED <<window, issued, unsaved, handlers, handles, promState, waitDb, dbq, done, db, nOps, nFail, posted, succeeded>>

\* ------------------------------------------------------------------------
\* IndexedDB: opening, execution of requests, completion
\* ------------------------------------------------------------------------
\* openDatabase's request fires onsuccess or onerror: the promise settles and
\* the operations awaiting it continue, in order, within the same task
Waiters(e, g) == SelectSeq(waitDb[e], LAMBDA op : op.prom = g)

IsWrite(op) == op.type \in {"set", "delete", "clear"}
\* the <<key, value>> of the sets among ops, which fail to persist (a failed
\* put of the value the object store already holds loses nothing), and the
\* <<key, value>> a committed put makes good
FailedPuts(ops) ==
  {<<ops[i].key, ops[i].value>> :
     i \in {j \in 1..Len(ops) : ops[j].type = "set" /\ db[ops[j].key] # ops[j].value}}
SavedPuts(op) == IF op.type = "set" THEN {<<op.key, op.value>>} ELSE {}

OpenSettle(e, g, ok) ==
  /\ g \in 1..Len(promState[e])
  /\ promState[e][g] = "pending"
  /\ promState' = [promState EXCEPT ![e][g] = IF ok THEN "open" ELSE "failed"]
  /\ nFail' = IF ok THEN nFail ELSE nFail + 1
  /\ waitDb' = [waitDb EXCEPT ![e] = SelectSeq(@, LAMBDA op : op.prom # g)]
  /\ dbq' = IF ok THEN dbq \o Waiters(e, g) ELSE dbq
  /\ last' = IF Waiters(e, g) = <<>> THEN Quiet
             ELSE Step("open", e, Head(Waiters(e, g)), IF ok THEN "pending" ELSE "persist", Undef, <<>>)
  /\ trail' = IF ok THEN trail
              ELSE [trail EXCEPT ![e] = [k \in Keys |->
                      IF \E i \in 1..Len(Waiters(e, g)) : Waiters(e, g)[i].key = k THEN NoTrail ELSE @[k]]]
  /\ unsaved' = IF ok THEN unsaved ELSE unsaved \cup FailedPuts(Waiters(e, g))
  /\ UNCHANGED <<window, issued, handlers, cache, listeners, handles, dbPromise, closed, done, inbox,
                 db, nOps, posted, succeeded>>

Touches(op, k) == op.type \in {"clear", "getAll"} \/ op.key = k


\* variant: the delete request leaves the entry in place
DbApply_NoDelete(op) ==
  IF op.type = "set" THEN [db EXCEPT ![op.key] = op.value]
  ELSE IF op.type = "clear" THEN [k \in Keys |-> Absent]
  ELSE db

\* variant: the clear request leaves the entries in place
DbApply_NoClear(op) ==
  IF op.type = "set" THEN [db EXCEPT ![op.key] = op.value]
  ELSE IF op.type = "delete" THEN [db EXCEPT ![op.key] = Absent]
  ELSE db

\* variant: the put request is acknowledged without storing the value
DbApply_NoPut(op) ==
  IF op.type = "delete" THEN [db EXCEPT ![op.key] = Absent]
  ELSE IF op.type = "clear" THEN [k \in Keys |-> Absent]
  ELSE db

\* what the request of op does to the object store
DbApply(op) ==
  IF op.type = "set" THEN [db EXCEPT ![op.key] = op.value]
  ELSE IF op.type = "delete" THEN [db EXCEPT ![op.key] = Absent]
  ELSE IF op.type = "clear" THEN [k \in Keys |-> Absent]
  ELSE db

\* variant: store.get finds no entry
dbGet_Miss(k) == Undef

\* request.result of store.get: undefined when there is no entry
dbGet(k) == IF db[k] = Absent THEN Undef ELSE db[k]

\* the database executes the oldest request; it succeeds or fails
DbExec(ok) ==
  /\ dbq # <<>>
  /\ LET op == Head(dbq)
         res == IF ok /\ op.type = "get" THEN dbGet(op.key) ELSE Undef
         all == IF ok /\ op.type = "getAll" THEN db ELSE EmptyCache
     IN  /\ db' = IF ok THEN DbApply(op) ELSE db
         /\ done' = [done EXCEPT ![op.e] = Append(@, [op EXCEPT !.ok = ok, !.res = res, !.all = all])]
         /\ trail' = [e \in Engines |-> [k \in Keys |->
                        IF ok /\ IsWrite(op) /\ op.e # e /\ Touches(op, k)
                        THEN TrailRemoteWrite(trail[e][k]) ELSE trail[e][k]]]
  /\ dbq' = Tail(dbq)
  /\ nFail' = IF ok THEN nFail ELSE nFail + 1
  /\ last' = Quiet
  /\ unsaved' = IF ok THEN unsaved \ SavedPuts(Head(dbq)) ELSE unsaved \cup FailedPuts(<<Head(dbq)>>)
  /\ UNCHANGED <<window, issued, handlers, cache, listeners, handles, dbPromise, promState, closed, waitDb, inbox,
                 nOps, posted, succeeded>>

\* variant: the delete message carries no oldValue
MessageOf_NoOldValue(op) ==
  IF op.type = "set" THEN BroadcastMessage("set", op.key, op.value, op.old)
  ELSE IF op.type = "delete" THEN BroadcastMessage("delete", op.key, Undef, Undef)
  ELSE BroadcastMessage("clear", Undef, Undef, Undef)

\* the message a write posts after persisting
MessageOf(op) ==
  IF op.type = "set" THEN BroadcastMessage("set", op.key, op.value, op.old)
  ELSE IF op.type = "delete" THEN BroadcastMessage("delete", op.key, Undef, op.old)
  ELSE BroadcastMessage("clear", Undef, Undef, Undef)

\* notifications of a write after its request succeeded
WriteNotify(e, op) ==
  IF op.type = "set" THEN notifyListeners(e, op.key, op.value, op.old)
  ELSE IF op.type = "delete" THEN notifyListeners(e, op.key, Undef, op.old)
  ELSE NotifyAll(e, 1)

\* variant: the continuation notifies and posts when the request failed too
CompleteFx_OnFailure(e, op) ==
  IF IsWrite(op) THEN WriteNotify(e, op) \o postMessage(e, MessageOf(op)) ELSE <<>>

\* effects, in order, of the continuation after the request's event
CompleteFx(e, op) ==
  IF op.ok /\ IsWrite(op) THEN WriteNotify(e, op) \o postMessage(e, MessageOf(op)) ELSE <<>>

CompleteOut(e, op) ==
  IF ~op.ok THEN "persist"
  ELSE IF IsWrite(op) /\ PostThrows(e) THEN "transport"
  ELSE "ok"


\* variant: a failed put restores the previous cache value
CompleteCache_Rollback(e, op) ==
  IF ~op.ok /\ op.type = "set"
  THEN [cache[e] EXCEPT ![op.key] = IF op.old = Undef THEN Absent ELSE op.old]
  ELSE IF op.ok /\ op.type = "get" /\ op.res # Undef THEN [cache[e] EXCEPT ![op.key] = op.res]
  ELSE IF op.ok /\ op.type = "getAll"
       THEN [k \in Keys |-> IF op.all[k] # Absent THEN op.all[k] ELSE cache[e][k]]
  ELSE cache[e]

\* variant: getAll leaves the keys that are already cached alone
CompleteCache_KeepCached(e, op) ==
  IF op.ok /\ op.type = "get" /\ op.res # Undef THEN [cache[e] EXCEPT ![op.key] = op.res]
  ELSE IF op.ok /\ op.type = "getAll"
       THEN [k \in Keys |-> IF op.all[k] # Absent /\ cache[e][k] = Absent
                            THEN op.all[k] ELSE cache[e][k]]
  ELSE cache[e]

\* variant: set writes the cache again after the put
CompleteCache_SetAgain(e, op) ==
  IF op.ok /\ op.type = "set" THEN [cache[e] EXCEPT ![op.key] = op.value]
  ELSE IF op.ok /\ op.type = "get" /\ op.res # Undef THEN [cache[e] EXCEPT ![op.key] = op.res]
  ELSE IF op.ok /\ op.type = "getAll"
       THEN [k \in Keys |-> IF op.all[k] # Absent THEN op.all[k] ELSE cache[e][k]]
  ELSE cache[e]

\* variant: get caches undefined when the store has no entry
CompleteCache_CachesMiss(e, op) ==
  IF op.ok /\ op.type = "get" THEN [cache[e] EXCEPT ![op.key] = op.res]
  ELSE IF op.ok /\ op.type = "getAll"
       THEN [k \in Keys |-> IF op.all[k] # Absent THEN op.all[k] ELSE cache[e][k]]
  ELSE cache[e]

\* cache after the continuation: get hydrates a defined value, getAll merges
CompleteCache(e, op) ==
  IF op.ok /\ op.type = "get" /\ op.res # Undef THEN [cache[e] EXCEPT ![op.key] = op.res]
  ELSE IF op.ok /\ op.type = "getAll"
       THEN [k \in Keys |-> IF op.all[k] # Absent THEN op.all[k] ELSE cache[e][k]]
  ELSE cache[e]

\* what the call resolves to: the fetched value, the enumerated entries
\* (Absent marks a key without entry), or nothing
CompleteRet(op) ==
  IF op.ok /\ op.type = "get" THEN op.res
  ELSE IF op.ok /\ op.type = "getAll" THEN op.all
  ELSE Undef

Complete(e) ==
  /\ done[e] # <<>>
  /\ LET op == Head(done[e])
         fx == Dispatch(e, CompleteFx(e, op))
     IN  /\ cache' = [cache EXCEPT ![e] = CompleteCache(e, op)]
         /\ inbox' = Broadcast(e, inbox, fx)
         /\ posted' = posted + Len(Posts(fx))
         /\ succeeded' = IF IsWrite(op) /\ CompleteOut(e, op) = "ok" THEN succeeded + 1 ELSE succeeded
         /\ last' = Step("complete", e, op, CompleteOut(e, op), CompleteRet(op), fx)
         /\ trail' = [trail EXCEPT ![e] = [k \in Keys |->
                        IF ~Touches(op, k) THEN @[k]
                        ELSE IF op.type = "getAll" THEN NoTrail
                        ELSE TrailDone(@[k], op, CompleteOut(e, op))]]
  /\ done' = [done EXCEPT ![e] = Tail(@)]
  /\ UNCHANGED <<window, issued, unsaved, handlers, listeners, handles, dbPromise, promState, closed, waitDb, dbq, db,
                 nOps, nFail>>

\* ------------------------------------------------------------------------
\* channel.onmessage
\* ------------------------------------------------------------------------
IsSetMsg(m) == m.type = "set" /\ m.key # Undef /\ m.value # Undef
IsDeleteMsg(m) == ~IsSetMsg(m) /\ m.type = "delete" /\ m.key # Undef
IsClearMsg(m) == ~IsSetMsg(m) /\ ~IsDeleteMsg(m) /\ m.type = "clear"

\* variant: the clear branch leaves the cache alone
OnMessageCache_ClearKeepsCache(e, m) ==
  IF IsSetMsg(m) THEN [cache[e] EXCEPT ![m.key] = m.value]
  ELSE IF IsDeleteMsg(m) THEN [cache[e] EXCEPT ![m.key] = Absent]
  ELSE cache[e]

OnMessageCache(e, m) ==
  IF IsSetMsg(m) THEN [cache[e] EXCEPT ![m.key] = m.value]
  ELSE IF IsDeleteMsg(m) THEN [cache[e] EXCEPT ![m.key] = Absent]
  ELSE IF IsClearMsg(m) THEN EmptyCache
  ELSE cache[e]


\* variant: the handler re-posts what it received
OnMessageFx_Relay(e, m) ==
  IF IsSetMsg(m) THEN notifyListeners(e, m.key, m.value, m.oldValue) \o postMessage(e, m)
  ELSE IF IsDeleteMsg(m) THEN notifyListeners(e, m.key, Undef, CacheGet(e, m.key)) \o postMessage(e, m)
  ELSE IF IsClearMsg(m) THEN NotifyAll(e, 1) \o postMessage(e, m)
  ELSE <<>>

\* variant: the delete branch passes the oldValue of the message on
OnMessageFx_MessageOld(e, m) ==
  IF IsSetMsg(m) THEN notifyListeners(e, m.key, m.value, m.oldValue)
  ELSE IF IsDeleteMsg(m) THEN notifyListeners(e, m.key, Undef, m.oldValue)
  ELSE IF IsClearMsg(m) THEN NotifyAll(e, 1)
  ELSE <<>>

OnMessageFx(e, m) ==
  IF IsSetMsg(m) THEN notifyListeners(e, m.key, m.value, m.oldValue)
  ELSE IF IsDeleteMsg(m) THEN notifyListeners(e, m.key, Undef, CacheGet(e, m.key))
  ELSE IF IsClearMsg(m) THEN NotifyAll(e, 1)
  ELSE <<>>

MsgTouches(m, k) == (IsSetMsg(m) /\ m.key = k) \/ (IsDeleteMsg(m) /\ m.key = k) \/ IsClearMsg(m)

MsgOp(m) == [NoOp EXCEPT !.type = m.type, !.key = m.key, !.value = m.value, !.old = m.oldValue]

Deliver(e) ==
  /\ inbox[e] # <<>>
  /\ ~closed[e]
  /\ LET m == Head(inbox[e])
         fx == Dispatch(e, OnMessageFx(e, m))
     IN  /\ cache' = [cache EXCEPT ![e] = OnMessageCache(e, m)]
         /\ inbox' = Broadcast(e, [inbox EXCEPT ![e] = Tail(@)], fx)
         /\ posted' = posted + Len(Posts(fx))
         /\ last' = Step("deliver", e, MsgOp(m), "none", Undef, fx)
         /\ trail' = [trail EXCEPT ![e] = [k \in Keys |->
                        IF MsgTouches(m, k) THEN TrailInbound(@[k]) ELSE @[k]]]
  /\ UNCHANGED <<window, issued, unsaved, handlers, listeners, handles, dbPromise, promState, closed, waitDb, dbq, done, db,
                 nOps, nFail, succeeded>>

\* ------------------------------------------------------------------------
\* Specifications
\* ------------------------------------------------------------------------
\* no call of engine e is in flight: its caller awaited every call
Idle(e) == waitDb[e] = <<>> /\ done[e] = <<>> /\ \A i \in 1..Len(dbq) : dbq[i].e # e

MayFail(ok) == ok \/ nFail < MaxFail

\* createStore called again for a context whose store was destroyed and has
\* no call in flight (a page reload): a new cache, registry and channel
CreateStore(e) ==
  /\ closed[e] /\ Idle(e)
  /\ closed' = [closed EXCEPT ![e] = FALSE]
  /\ cache' = [cache EXCEPT ![e] = EmptyCache]
  /\ listeners' = [listeners EXCEPT ![e] = <<>>]
  /\ handles' = [handles EXCEPT ![e] = {}]
  /\ dbPromise' = [dbPromise EXCEPT ![e] = 0]
  /\ inbox' = [inbox EXCEPT ![e] = <<>>]
  /\ trail' = [trail EXCEPT ![e] = [k \in Keys |-> NoTrail]]
  /\ last' = Step("create", e, NoOp, "none", Undef, <<>>)
  /\ UNCHANGED <<promState, waitDb, dbq, done, db, nOps, nFail, posted, succeeded, handlers,
                 unsaved, window, issued>>

\* the listeners engine A registers in SpecWrite
WriteSubs == {<<"k1", "L1">>, <<"k1", "L2">>, <<"k2", "L1">>}

\* SpecWrite: one context writes (each call awaited), subscribes and destroys
\* its store while the Persistent Store may fail
NextWrite ==
  \/ \E k \in Keys, v \in Values : nOps["A"] < MaxWriteOps /\ Idle("A") /\ Set("A", k, v)
  \/ \E k \in Keys : nOps["A"] < MaxWriteOps /\ Idle("A") /\ Del("A", k)
  \/ nOps["A"] < MaxWriteOps /\ Idle("A") /\ Clear("A")
  \/ \E p \in WriteSubs : Subscribe("A", p[1], p[2])
  \/ Destroy("A")
  \/ \E g \in 1..Len(promState["A"]), ok \in BOOLEAN : MayFail(ok) /\ OpenSettle("A", g, ok)
  \/ \E ok \in BOOLEAN : MayFail(ok) /\ DbExec(ok)
  \/ Complete("A")

SpecWrite == Init /\ [][NextWrite]_vars

\* SpecRound: context A awaits each of its calls on key k2 (no validator)
\* while context B writes the same key; the Persistent Store does not fail
NextRound ==
  \/ \E v \in Values : nOps["A"] < MaxLocalOps /\ Idle("A") /\ Set("A", "k2", v)
  \/ nOps["A"] < MaxLocalOps /\ Idle("A") /\ Del("A", "k2")
  \/ nOps["A"] < MaxLocalOps /\ Idle("A") /\ Get("A", "k2")
  \/ Subscribe("A", "k2", "L1")
  \/ nOps["B"] < MaxRemoteOps /\ Set("B", "k2", "v1")
  \/ \E e \in Engines : \E g \in 1..Len(promState[e]) : OpenSettle(e, g, TRUE)
  \/ DbExec(TRUE)
  \/ \E e \in Engines : Complete(e)
  \/ Deliver("A")

SpecRound == Init /\ [][NextRound]_vars

\* SpecSync: both contexts write key k2 concurrently, without awaiting;
\* context B subscribes and may destroy its store
NextSync ==
  \/ \E v \in {"v1", Undef} : nOps["A"] + nOps["B"] < MaxSyncOps /\ Set("A", "k2", v)
  \/ nOps["A"] + nOps["B"] < MaxSyncOps /\ Set("B", "k2", "v2")
  \/ \E e \in Engines : nOps["A"] + nOps["B"] < MaxSyncOps /\ Del(e, "k2")
  \/ \E e \in Engines : nOps["A"] + nOps["B"] < MaxSyncOps /\ Clear(e)
  \/ Subscribe("B", "k2", "L1")
  \/ Destroy("B")
  \/ \E e \in Engines : \E g \in 1..Len(promState[e]) : OpenSettle(e, g, TRUE)
  \/ \E ok \in BOOLEAN : MayFail(ok) /\ DbExec(ok)
  \/ \E e \in Engines : Complete(e)
  \/ \E e \in Engines : Deliver(e)

SpecSync == Init /\ [][NextSync]_vars

\* SpecReload: context A writes key k2 (each call awaited); context B reads
\* with get and getAll, and reloads (destroy, then createStore); a write
\* request may fail
NextReload ==
  \/ \E v \in SetArgs : nOps["A"] < MaxStoreOps /\ Idle("A") /\ Set("A", "k2", v)
  \/ nOps["A"] < MaxStoreOps /\ Idle("A") /\ Del("A", "k2")
  \/ nOps["B"] < MaxReadOps /\ Idle("B") /\ Get("B", "k2")
  \/ nOps["B"] < MaxReadOps /\ Idle("B") /\ GetAll("B")
  \/ Destroy("B")
  \/ CreateStore("B")
  \/ \E e \in Engines : \E g \in 1..Len(promState[e]) : OpenSettle(e, g, TRUE)
  \/ \E ok \in BOOLEAN : MayFail(ok) /\ dbq # <<>> /\ (ok \/ IsWrite(Head(dbq))) /\ DbExec(ok)
  \/ \E e \in Engines : Complete(e)
  \/ Deliver("B")

SpecReload == Init /\ [][NextReload]_vars

\* the subscribeToKey calls made in context A in SpecEvents
KeySubs == {<<channelName, "k2", "L1">>, <<otherChannel, "k2", "L1">>}

\* SpecEvents: context A holds standalone subscriptions (subscribeToKey) and
\* one store subscription, and awaits its set and clear calls on k2; context
\* B sets k2 once
NextEvents ==
  \/ nOps["A"] < MaxEventOps /\ Idle("A") /\ Set("A", "k2", "v1")
  \/ nOps["A"] < MaxEventOps /\ Idle("A") /\ Clear("A")
  \/ nOps["B"] = 0 /\ Set("B", "k2", "v2")
  \/ \E s \in KeySubs : Len(handlers["A"]) < MaxHandlers /\ SubscribeToKey("A", s[1], s[2], s[3])
  \/ \E id \in 1..Len(handlers["A"]) : UnsubscribeFromKey("A", id)
  \/ Subscribe("A", "k1", "L1")
  \/ \E e \in Engines : \E g \in 1..Len(promState[e]) : OpenSettle(e, g, TRUE)
  \/ DbExec(TRUE)
  \/ \E e \in Engines : Complete(e)
  \/ Deliver("A")

SpecEvents == Init /\ [][NextEvents]_vars

\* SpecRace: context A calls get, getAll and set on k2 without awaiting them
\* while context B sets k2
NextRace ==
  \/ nOps["A"] < MaxRaceOps /\ Get("A", "k2")
  \/ nOps["A"] < MaxRaceOps /\ GetAll("A")
  \/ nOps["A"] < MaxRaceOps /\ Set("A", "k2", "v2")
  \/ nOps["B"] < MaxRemoteOps /\ Set("B", "k2", "v1")
  \/ \E e \in Engines : \E g \in 1..Len(promState[e]) : OpenSettle(e, g, TRUE)
  \/ DbExec(TRUE)
  \/ \E e \in Engines : Complete(e)
  \/ Deliver("A")

SpecRace == Init /\ [][NextRace]_vars

\* the store subscriptions made in context A in SpecRegistry
RegistrySubs == {<<"k1", "L1">>, <<"k2", "L1">>, <<"k2", "L2">>}

\* SpecRegistry: context A subscribes and unsubscribes listeners at any time,
\* also while its awaited set and clear calls are in flight
NextRegistry ==
  \/ \E v \in Values : nOps["A"] < MaxRegistryOps /\ Idle("A") /\ Set("A", "k2", v)
  \/ nOps["A"] < MaxRegistryOps /\ Idle("A") /\ Clear("A")
  \/ \E p \in RegistrySubs : Subscribe("A", p[1], p[2])
  \/ \E p \in RegistrySubs : Unsubscribe("A", p[1], p[2])
  \/ \E g \in 1..Len(promState["A"]) : OpenSettle("A", g, TRUE)
  \/ DbExec(TRUE)
  \/ Complete("A")

SpecRegistry == Init /\ [][NextRegistry]_vars

\* SpecRecover: one context awaits its set, delete, get and getAll calls on
\* key k2 while the Persistent Store (its opening included) may fail
NextRecover ==
  \/ \E v \in Values : nOps["A"] < MaxRecoverOps /\ Idle("A") /\ Set("A", "k2", v)
  \/ nOps["A"] < MaxRecoverOps /\ Idle("A") /\ Del("A", "k2")
  \/ nOps["A"] < MaxRecoverOps /\ Idle("A") /\ Get("A", "k2")
  \/ nOps["A"] < MaxRecoverOps /\ Idle("A") /\ GetAll("A")
  \/ \E g \in 1..Len(promState["A"]), ok \in BOOLEAN : MayFail(ok) /\ OpenSettle("A", g, ok)
  \/ \E ok \in BOOLEAN : MayFail(ok) /\ DbExec(ok)
  \/ Complete("A")

SpecRecover == Init /\ [][NextRecover]_vars

\* the store subscriptions made in context A in SpecInbound
InboundSubs == {<<"k1", "L1">>, <<"k2", "L1">>, <<"k2", "L2">>}

\* SpecInbound: context B (no validator) awaits its set and clear calls;
\* context A (validator on k1) subscribes listeners, handles B's messages
\* and reads k1 with get
NextInbound ==
  \/ \E k \in Keys, v \in Values : nOps["B"] < MaxSendOps /\ Idle("B") /\ Set("B", k, v)
  \/ nOps["B"] < MaxSendOps /\ Idle("B") /\ Clear("B")
  \/ nOps["A"] < MaxHydrateOps /\ Idle("A") /\ Get("A", "k1")
  \/ \E p \in InboundSubs : Subscribe("A", p[1], p[2])
  \/ \E e \in Engines : \E g \in 1..Len(promState[e]) : OpenSettle(e, g, TRUE)
  \/ DbExec(TRUE)
  \/ \E e \in Engines : Complete(e)
  \/ Deliver("A")

SpecInbound == Init /\ [][NextInbound]_vars

\* SpecCache: context A calls every operation that touches key k2 without
\* awaiting, and handles the messages of context B, which sets k2
NextCache ==
  \/ nOps["A"] < MaxCacheOps /\ Get("A", "k2")
  \/ nOps["A"] < MaxCacheOps /\ GetAll("A")
  \/ nOps["A"] < MaxCacheOps /\ Set("A", "k2", "v2")
  \/ nOps["A"] < MaxCacheOps /\ Del("A", "k2")
  \/ nOps["A"] < MaxCacheOps /\ Clear("A")
  \/ nOps["B"] < MaxRemoteOps /\ Set("B", "k2", "v1")
  \/ \E e \in Engines : \E g \in 1..Len(promState[e]) : OpenSettle(e, g, TRUE)
  \/ DbExec(TRUE)
  \/ \E e \in Engines : Complete(e)
  \/ Deliver("A")

SpecCache == Init /\ [][NextCache]_vars

\* SpecSolo: a single context calls every operation on key k2 without
\* awaiting; no other context writes and the Persistent Store does not fail
NextSolo ==
  \/ nOps["A"] < MaxSoloOps /\ Get("A", "k2")
  \/ nOps["A"] < MaxSoloOps /\ GetAll("A")
  \/ \E v \in Values : nOps["A"] < MaxSoloOps /\ Set("A", "k2", v)
  \/ nOps["A"] < MaxSoloOps /\ Del("A", "k2")
  \/ nOps["A"] < MaxSoloOps /\ Clear("A")
  \/ \E g \in 1..Len(promState["A"]) : OpenSettle("A", g, TRUE)
  \/ DbExec(TRUE)
  \/ Complete("A")

SpecSolo == Init /\ [][NextSolo]_vars

\* the subscribeToKey calls made in context A in SpecNames
NameSubs == {<<channelName, "k1", "L1">>, <<channelName, "k2", "L1">>,
             <<colonChannel, "k3", "L2">>}

\* SpecNames: context A holds standalone subscriptions for several
\* (channelName, key) pairs and awaits its set calls
NextNames ==
  \/ \E k \in Keys : nOps["A"] < MaxNameOps /\ Idle("A") /\ Set("A", k, "v1")
  \/ \E s \in NameSubs : Len(handlers["A"]) < MaxHandlers /\ SubscribeToKey("A", s[1], s[2], s[3])
  \/ \E g \in 1..Len(promState["A"]) : OpenSettle("A", g, TRUE)
  \/ DbExec(TRUE)
  \/ Complete("A")

SpecNames == Init /\ [][NextNames]_vars

\* SpecShared: two engines with the same channel name live in one window;
\* engine A awaits its set calls on k2, engine B handles the messages, and
\* the page holds standalone subscriptions for k2
NextShared ==
  \/ \E v \in Values : nOps["A"] < MaxSharedOps /\ Idle("A") /\ Set("A", "k2", v)
  \/ Len(handlers["A"]) < MaxHandlers /\ SubscribeToKey("B", channelName, "k2", "L1")
  \/ \E id \in 1..Len(handlers["A"]) : UnsubscribeFromKey("B", id)
  \/ \E g \in 1..Len(promState["A"]) : OpenSettle("A", g, TRUE)
  \/ DbExec(TRUE)
  \/ Complete("A")
  \/ Deliver("B")

SpecShared == InitShared /\ [][NextShared]_vars

\* the store subscriptions made in context A in SpecHandles
HandleSubs == {<<"k1", "L1">>, <<"k2", "L1">>, <<"k2", "L2">>}

\* SpecHandles: context A subscribes listeners, the same listener several
\* times too, keeps every closure and calls the closures at any time
NextHandles ==
  \/ \E p \in HandleSubs : Len(issued["A"]) < MaxHandles /\ SubscribeHandle("A", p[1], p[2])
  \/ \E i \in 1..Len(issued["A"]) : CallHandle("A", i)

SpecHandles == Init /\ [][NextHandles]_vars

\* ------------------------------------------------------------------------
\* Properties
\* ------------------------------------------------------------------------
SetCall(st) == st.act = "call" /\ st.op.type = "set"
SetDone(st) == st.act = "complete" /\ st.op.type = "set"
GetResolved(st) == st.act \in {"call", "complete"} /\ st.op.type = "get" /\ st.out = "ok"
Chain(e, k) == trail[e][k].chain

\* C1: a set(k, v) whose validator throws fails with the validator's error and
\* has no side effect: cache, object store, pending requests, listeners'
\* notifications, events and posted messages are all untouched.
C1_ValidationGate ==
  [][ (SetCall(last') /\ HasValidator(last'.e, last'.op.key)
         /\ ValidatorThrows(last'.e, last'.op.key, last'.op.value))
      => /\ last'.out = "validation"
         /\ last'.fx = <<>>
         /\ UNCHANGED <<cache, db, dbq, waitDb, done, inbox, dbPromise, promState,
                        posted, succeeded, listeners>> ]_vars

C1_Witness ==
  /\ SetCall(last) /\ last.out = "validation"
  /\ cache[last.e][last.op.key] = "v1"
  /\ db[last.op.key] = "v1"

\* C2: a successful local set(k, v) calls each listener of k once with
\* (v, oldValue), then dispatches one event for (channelName, k), then posts
\* one Set{k, v, oldValue}, in that order; oldValue is the cache value of k
\* read when set was called.
ExpectedSetFx(e, op) ==
  LET ls == MapGet(listeners[e], op.key)
  IN  [i \in 1..Len(ls) |-> <<"listener", ls[i], op.key, op.value, op.old>>]
      \o << <<"event", createEventName(channelName, KeyName(op.key)), op.value, op.old>>,
            <<"post", [type |-> "set", key |-> op.key, value |-> op.value, oldValue |-> op.old]>> >>

C7_PutFailureKeepsCache ==
  [][ (SetDone(last') /\ ~last'.op.ok)
      => /\ last'.out = "persist"
         /\ cache' = cache
         /\ (Chain(last'.e, last'.op.key) # <<>>
               /\ LastOf(Chain(last'.e, last'.op.key)).id = last'.op.id
               /\ ~trail[last'.e][last'.op.key].inb)
            => cache'[last'.e][last'.op.key] = last'.op.value ]_vars

C7_Witness ==
  /\ SetDone(last) /\ last.out = "persist"
  /\ last.op.old = "v1" /\ last.op.value = "v2"
  /\ cache[last.e][last.op.key] = "v2"
  /\ db[last.op.key] = "v1"

\* C8: a failed post never fails the operation: a set, delete or clear whose
\* request succeeded resolves for its caller.
C8_PostFailureIsSilent ==
  (last.act = "complete" /\ IsWrite(last.op) /\ last.op.ok) => last.out = "ok"

\* C4: when a context performs a successful set(k, v), every other live
\* engine on the channel calls each of its listeners of k exactly once for
\* this write, with (v, the sender's oldValue).
C4_Propagation ==
  (last.act = "deliver" /\ last.op.type = "set")
  => ListenerCalls(last.fx) =
       [i \in 1..Len(MapGet(listeners[last.e], last.op.key)) |->
          <<"listener", MapGet(listeners[last.e], last.op.key)[i], last.op.key,
            last.op.value, last.op.old>>]

\* C5: handling an inbound message posts nothing and issues no Persistent
\* Store operation; the number of messages ever posted equals the number of
\* successful local set/delete/clear calls.
C5_NoRelay ==
  /\ [](posted = succeeded)
  /\ [][ last'.act = "deliver"
         => /\ Posts(last'.fx) = <<>>
            /\ inbox' = [inbox EXCEPT ![last'.e] = Tail(@)]
            /\ UNCHANGED <<db, dbq, waitDb, done, dbPromise, promState, posted, succeeded>> ]_vars

C5_Witness ==
  /\ last.act = "deliver" /\ last.op.type = "delete"
  /\ last.fx # <<>>
  /\ posted = 2 /\ succeeded = 2

\* C6: once every call has completed and every message has been delivered,
\* two live engines that both hold key k hold the same value for k (stated
\* for runs in which no Persistent Store operation failed and for defined
\* values, so that only concurrent writes can make the caches differ).
Quiescent ==
  /\ dbq = <<>>
  /\ \A e \in Engines : waitDb[e] = <<>> /\ done[e] = <<>> /\ inbox[e] = <<>>

C6_SameState ==
  (Quiescent /\ nFail = 0) =>
    \A k \in Keys : \A a, b \in Engines :
      (~closed[a] /\ ~closed[b] /\ cache[a][k] \in Values /\ cache[b][k] \in Values)
        => cache[a][k] = cache[b][k]

\* C3: for a key without validator, when set(k, v) has completed and get(k)
\* is then called with no other local operation on k in between, get(k)
\* returns v.
AfterSet(st) ==
  LET c == Chain(st.e, st.op.key)
  IN  Len(c) >= 2 /\ c[Len(c)].id = st.op.id /\ c[Len(c) - 1].type = "set"
PrevValue(st) == Chain(st.e, st.op.key)[Len(Chain(st.e, st.op.key)) - 1].v

AfterSetDelete(e, k) ==
  LET c == Chain(e, k)
  IN  /\ Len(c) >= 2
      /\ c[Len(c)].type = "delete" /\ c[Len(c)].st = "ok"
      /\ c[Len(c) - 1].type = "set"
GetAfterSetDelete(st) ==
  LET c == Chain(st.e, st.op.key)
  IN  /\ GetResolved(st)
      /\ Len(c) = 3 /\ c[3].id = st.op.id
      /\ c[2].type = "delete" /\ c[1].type = "set"

Undisturbed(e, k) == ~trail[e][k].inb /\ ~trail[e][k].rdb

Stored(a, k) ==
  /\ Chain(a, k) # <<>>
  /\ LastOf(Chain(a, k)).type = "set" /\ LastOf(Chain(a, k)).st = "ok"
StoredValue(a, k) == LastOf(Chain(a, k)).v
\* st is the resolution of a get that went to the Persistent Store; since the
\* get was called no write of another context was committed and no inbound
\* message was applied (the engine has nothing queued when newly created)
FetchedGet(st) ==
  /\ st.act = "complete" /\ st.op.type = "get" /\ st.out = "ok"
  /\ Chain(st.e, st.op.key) # <<>>
  /\ LastOf(Chain(st.e, st.op.key)).id = st.op.id
  /\ ~trail[st.e][st.op.key].rdb /\ ~trail[st.e][st.op.key].inb

C11_Durability ==
  \A a \in Engines :
    (FetchedGet(last) /\ a # last.e /\ Stored(a, last.op.key))
    => /\ last.ret = StoredValue(a, last.op.key)
       /\ cache[last.e][last.op.key] = StoredValue(a, last.op.key)

\* C11 as amended: ... for a value v other than undefined; after
\* set(k, undefined) the get returns undefined and caches nothing.
C11_DurabilityDefined ==
  \A a \in Engines :
    (FetchedGet(last) /\ a # last.e /\ Stored(a, last.op.key))
    => /\ last.ret = StoredValue(a, last.op.key)
       /\ cache[last.e][last.op.key] =
            IF StoredValue(a, last.op.key) = Undef THEN Absent ELSE StoredValue(a, last.op.key)

C11_Witness ==
  /\ FetchedGet(last) /\ last.e = "B" /\ Stored("A", "k2")
  /\ last.ret = "v1" /\ cache["B"]["k2"] = "v1"
  /\ nOps["A"] = 2 /\ nOps["B"] = 2

\* C12: whenever an engine of the context resolves a set(k, v) or applies an
\* inbound Set for k, every listener registered with
\* subscribeToKey(channelName, k, fn) and not unsubscribed is called once with
\* (v, oldValue), in order of registration, and no other standalone listener
\* is called (none of another channel name, none that was unsubscribed).
SetApplied(st) ==
  \/ st.act = "complete" /\ st.op.type = "set" /\ st.out = "ok"
  \/ st.act = "deliver" /\ IsSetMsg(BroadcastMessage(st.op.type, st.op.key, st.op.value, st.op.old))
Registered(e, ch, k) ==
  SelectSeq(handlers[window[e]], LAMBDA h : h.on /\ h.ch = ch /\ h.key = k)

C12_DecoupledSubscription ==
  SetApplied(last)
  => Handled(last.fx) =
       [i \in 1..Len(Registered(last.e, channelName, last.op.key)) |->
          <<"handler", Registered(last.e, channelName, last.op.key)[i].id,
            Registered(last.e, channelName, last.op.key)[i].l, last.op.value, last.op.old>>]

C12_Witness ==
  /\ last.act = "deliver" /\ SetApplied(last)
  /\ Len(Handled(last.fx)) = 1
  /\ Len(handlers[last.e]) = 2
  /\ \E i \in 1..2 : ~handlers[last.e][i].on /\ handlers[last.e][i].ch = channelName

\* C19: when clear() resolves, every active subscriber of a key that held a
\* value (a set of the key resolved before clear was called) is notified
\* with value undefined: the listeners of store.subscribe and those of
\* subscribeToKey on the same channel name.
ClearResolved(st) == st.act = "complete" /\ st.op.type = "clear" /\ st.out = "ok"
HeldValue(st, k) ==
  LET c == Chain(st.e, k)
  IN  /\ Len(c) >= 2 /\ c[Len(c)].id = st.op.id
      /\ c[Len(c) - 1].type = "set" /\ c[Len(c) - 1].st = "ok"
      /\ ~trail[st.e][k].inb

C19_ClearNotifiesBothKinds ==
  \A k \in Keys :
    (ClearResolved(last) /\ HeldValue(last, k))
    => /\ \A i \in 1..Len(MapGet(listeners[last.e], k)) :
            \E j \in 1..Len(last.fx) :
              last.fx[j] = <<"listener", MapGet(listeners[last.e], k)[i], k, Undef, Undef>>
       /\ \A i \in 1..Len(Registered(last.e, channelName, k)) :
            \E j \in 1..Len(last.fx) :
              /\ last.fx[j][1] = "handler"
              /\ last.fx[j][2] = Registered(last.e, channelName, k)[i].id
              /\ last.fx[j][4] = Undef

\* C13: a clear() that resolves fires exactly one notification with
\* (undefined, undefined) for every key that had a listener when clear() was
\* called, whatever was subscribed or unsubscribed while it was awaiting.
EventsFor(fx, k) ==
  SelectSeq(fx, LAMBDA x : x[1] = "event" /\ x[2] = createEventName(channelName, KeyName(k)))
CallsFor(fx, k) == SelectSeq(fx, LAMBDA x : x[1] = "listener" /\ x[3] = k)
ClearEntry(st, k) == LastOf(Chain(st.e, k))
ClearTracked(st, k) ==
  ClearResolved(st) /\ Chain(st.e, k) # <<>> /\ ClearEntry(st, k).id = st.op.id

C13_ClearNotifiesKeysAtCall ==
  \A k \in Keys :
    (ClearTracked(last, k) /\ k \in ClearEntry(last, k).subs)
    => EventsFor(last.fx, k) = emitLocalEvent(channelName, k, Undef, Undef)

\* C13 as amended: ... for every key that has a listener when the Persistent
\* Store has acknowledged the clear (the registry is read after the await):
\* each listener of such a key is called once and one event is emitted for
\* the key, and nothing is fired for any other key.
C13_ClearNotifiesCurrentKeys ==
  \A k \in Keys :
    ClearResolved(last)
    => /\ EventsFor(last.fx, k) =
            IF MapHas(listeners[last.e], k)
            THEN emitLocalEvent(channelName, k, Undef, Undef) ELSE <<>>
       /\ CallsFor(last.fx, k) =
            [i \in 1..Len(MapGet(listeners[last.e], k)) |->
               <<"listener", MapGet(listeners[last.e], k)[i], k, Undef, Undef>>]

C13_Witness ==
  /\ ClearTracked(last, "k1")
  /\ ClearEntry(last, "k1").subs = {"k2"}
  /\ KeysOf(listeners[last.e]) = {"k1", "k2"}
  /\ Len(Events(last.fx)) = 2 /\ Len(ListenerCalls(last.fx)) = 3

\* C15: calling the closure returned by subscribe(k, listener) a second time
\* changes nothing: the registry stays as the first call left it.
C15_UnsubscribeIdempotent ==
  [][ (last'.act = "unsubscribe" /\ last'.out = "repeat")
      => /\ listeners' = listeners
         /\ UNCHANGED <<cache, handles, dbPromise, promState, closed, waitDb, dbq, done,
                        inbox, db, handlers>> ]_vars

C15_Witness ==
  /\ last.act = "unsubscribe" /\ last.out = "repeat"
  /\ last.op.key = "k2" /\ last.op.value = "L1"
  /\ MapGet(listeners[last.e], "k2") = <<"L2">>
  /\ MapHas(listeners[last.e], "k1")

\* C14: when clear() resolves, the cache of that engine is empty and the
\* object store is empty, whatever was interleaved while clear was awaiting.
C14_ClearEmpties ==
  ClearResolved(last)
  => \A k \in Keys : cache[last.e][k] = Absent /\ db[k] = Absent

\* C14 as amended: ... provided that, since clear() was called, no inbound
\* message for the key was applied in this context, no write of another
\* context was committed and no other local call was made.
C14_ClearEmptiesUndisturbed ==
  \A k \in Keys :
    (ClearTracked(last, k) /\ Undisturbed(last.e, k))
    => cache[last.e][k] = Absent /\ db[k] = Absent

C14_Witness ==
  /\ ClearTracked(last, "k2") /\ Undisturbed(last.e, "k2")
  /\ Len(Chain(last.e, "k2")) = 2
  /\ Chain(last.e, "k2")[1].type = "set" /\ Chain(last.e, "k2")[1].st = "ok"
  /\ Len(Events(last.fx)) = 1

\* C16: delete(k) of any key, cached or persisted or neither, is not an
\* error: it reads oldValue from the cache and removes k from it when called,
\* and once the Persistent Store has removed k it calls each listener of k
\* once with (undefined, oldValue), emits one event and posts exactly one
\* Delete{k, oldValue}; with the store not destroyed the call resolves.
DeleteDone(st) == st.act = "complete" /\ st.op.type = "delete"
ExpectedDeleteFx(e, op) ==
  [i \in 1..Len(MapGet(listeners[e], op.key)) |->
     <<"listener", MapGet(listeners[e], op.key)[i], op.key, Undef, op.old>>]
  \o << <<"event", createEventName(channelName, KeyName(op.key)), Undef, op.old>> >>
  \o << <<"post", [type |-> "delete", key |-> op.key, value |-> Undef, oldValue |-> op.old]>> >>

C16_DeleteAnyKey ==
  /\ [] ( (DeleteDone(last) /\ last.op.ok /\ ~closed[last.e])
           => /\ last.out = "ok"
              /\ last.fx = ExpectedDeleteFx(last.e, last.op)
              /\ cache[last.e][last.op.key] = Absent
              /\ db[last.op.key] = Absent )
  /\ [][ (last'.act = "call" /\ last'.op.type = "delete")
          => /\ last'.op.old = CacheGet(last'.e, last'.op.key)
             /\ cache'[last'.e][last'.op.key] = Absent ]_vars

C16_Witness ==
  /\ DeleteDone(last) /\ last.out = "ok"
  /\ nOps[last.e] = 1 /\ last.op.old = Undef
  /\ Len(ListenerCalls(last.fx)) = 2

\* C17: getAll() resolves to exactly the entries the object store held when
\* it was enumerated, and on resolving it writes every enumerated entry into
\* the cache, over whatever was cached, leaving the other keys as they were.
Enumerated(op) == {k \in Keys : op.all[k] # Absent}

C17_GetAllMerges ==
  /\ [][ (dbq # <<>> /\ Head(dbq).type = "getAll" /\ dbq' = Tail(dbq)
           /\ LastOf(done'[Head(dbq).e]).ok)
          => LastOf(done'[Head(dbq).e]).all = db ]_vars
  /\ [][ (last'.act = "complete" /\ last'.op.type = "getAll" /\ last'.out = "ok")
          => /\ last'.ret = last'.op.all
             /\ \A k \in Keys :
                  cache'[last'.e][k] =
                    IF k \in Enumerated(last'.op) THEN last'.op.all[k] ELSE cache[last'.e][k] ]_vars

C17_Witness ==
  /\ last.act = "complete" /\ last.op.type = "getAll" /\ last.out = "ok" /\ last.e = "B"
  /\ Enumerated(last.op) = {"k2"} /\ cache["B"]["k2"] = "v2"
  /\ inbox["B"] # <<>>
  /\ Head(inbox["B"]).value = "v2" /\ Head(inbox["B"]).oldValue = "v1"
  /\ nOps["B"] = 2

\* C18: destroy() closes the channel, empties the cache and the registry of
\* its engine and drops the connection promise; it leaves the object store,
\* and the requests already made, untouched.
C18_DestroyFrame ==
  [][ last'.act = "destroy"
      => /\ closed'[last'.e]
         /\ cache'[last'.e] = EmptyCache
         /\ listeners'[last'.e] = <<>>
         /\ dbPromise'[last'.e] = 0
         /\ db' = db
         /\ UNCHANGED <<dbq, waitDb, done>> ]_vars

C18_Witness ==
  /\ last.act = "destroy" /\ last.e = "A"
  /\ db["k1"] = "v1" /\ db["k2"] = "v2"
  /\ handles["A"] # {}
  /\ promState["A"] = <<"open">>

\* C20: the cache value of k is that of the most recent local set(k, .): a
\* get(k) or getAll() that was awaiting the Persistent Store when set was
\* called does not replace it when it resolves (stated for a set after which
\* no other local call on k was made and no inbound message was applied).
LatestIsSet(e, k) ==
  /\ Chain(e, k) # <<>>
  /\ LastOf(Chain(e, k)).type = "set"
  /\ ~trail[e][k].inb
  /\ cache[e][k] = LastOf(Chain(e, k)).v

C20_NoStaleHydration ==
  [][ \A k \in Keys :
        (last'.act = "complete" /\ last'.op.type \in {"get", "getAll"}
         /\ LatestIsSet(last'.e, k))
        => cache'[last'.e][k] = cache[last'.e][k] ]_vars

\* ------------------------------------------------------------------------
\* C21: after a set(k, v) or delete(k) whose persistence step failed, a get(k)
\* or getAll() that then reads the Persistent Store successfully leaves the
\* Cache entry for k in agreement with the Persistent Store: the same value,
\* or no entry in either. (In SpecRecover the only engine awaits every call,
\* so Cache and Persistent Store differ only after such a failure.)
\* ------------------------------------------------------------------------
Reloaded(st, k) ==
  /\ st.act = "complete" /\ st.out = "ok"
  /\ (st.op.type = "getAll" \/ (st.op.type = "get" /\ st.op.key = k))

C21_ReloadCorrects ==
  \A k \in Keys : (nFail > 0 /\ Reloaded(last, k)) => cache[last.e][k] = db[k]

\* ------------------------------------------------------------------------
\* C22: on receiving Delete{key, oldValue} the engine removes key from its
\* Cache and calls its listeners for key and dispatches the key's event with
\* (undefined, oldValue), oldValue being the one the message carries, whatever
\* the receiver's own Cache held for key.
\* ------------------------------------------------------------------------
DeleteHandled(st) == st.act = "deliver" /\ st.op.type = "delete"

C22_DeleteUsesMessageOldValue ==
  DeleteHandled(last) =>
    /\ cache[last.e][last.op.key] = Absent
    /\ Events(last.fx) = emitLocalEvent(channelName, last.op.key, Undef, last.op.old)
    /\ \A i \in 1..Len(ListenerCalls(last.fx)) :
         /\ ListenerCalls(last.fx)[i][3] = last.op.key
         /\ ListenerCalls(last.fx)[i][4] = Undef
         /\ ListenerCalls(last.fx)[i][5] = last.op.old

\* C22 as the code has it: the listeners and the event get (undefined, old),
\* old being what the receiver's own Cache held for key before the removal;
\* the oldValue of the message is not used.
C22_DeleteUsesOwnOldValue ==
  [][ DeleteHandled(last') =>
        LET e == last'.e
            k == last'.op.key
            keyListeners == MapGet(listeners[e], k)
        IN  /\ cache'[e] = [cache[e] EXCEPT ![k] = Absent]
            /\ Events(last'.fx) = emitLocalEvent(channelName, k, Undef, CacheGet(e, k))
            /\ ListenerCalls(last'.fx) =
                 [i \in 1..Len(keyListeners) |-> <<"listener", keyListeners[i], k, Undef, CacheGet(e, k)>>]
            /\ Posts(last'.fx) = <<>> ]_vars

C22_Witness ==
  /\ DeleteHandled(last)
  /\ ListenerCalls(last.fx) # <<>>
  /\ ListenerCalls(last.fx)[1][5] \notin {Undef, last.op.old}

\* ------------------------------------------------------------------------
\* C23: on receiving Set{key, value, oldValue}, for every value a sender's
\* set can accept (undefined included), the receiver's Cache holds value for
\* key afterwards, and the key's event is dispatched and every listener
\* called with (value, oldValue) of the message.
\* ------------------------------------------------------------------------
SetHandled(st) == st.act = "deliver" /\ st.op.type = "set" /\ st.op.key # Undef

C23_SetMessageApplied ==
  SetHandled(last) =>
    /\ cache[last.e][last.op.key] = last.op.value
    /\ Events(last.fx) = emitLocalEvent(channelName, last.op.key, last.op.value, last.op.old)
    /\ \A i \in 1..Len(ListenerCalls(last.fx)) :
         /\ ListenerCalls(last.fx)[i][4] = last.op.value
         /\ ListenerCalls(last.fx)[i][5] = last.op.old

\* ------------------------------------------------------------------------
\* C24: on receiving Clear{} the engine empties its whole Cache and notifies
\* exactly the keys of its own Subscription Registry: for each such key every
\* listener is called once and one event is dispatched, with
\* (undefined, undefined); nothing is fired for any other key.
\* ------------------------------------------------------------------------
ClearHandled(st) == st.act = "deliver" /\ st.op.type = "clear"

C24_ClearMessage ==
  [][ ClearHandled(last') =>
        LET e == last'.e
        IN  /\ cache'[e] = EmptyCache
            /\ Len(Events(last'.fx)) = Cardinality(KeysOf(listeners[e]))
            /\ Posts(last'.fx) = <<>>
            /\ \A k \in Keys :
                 /\ EventsFor(last'.fx, k) =
                      IF k \in KeysOf(listeners[e])
                      THEN emitLocalEvent(channelName, k, Undef, Undef) ELSE <<>>
                 /\ CallsFor(last'.fx, k) =
                      [i \in 1..Len(MapGet(listeners[e], k)) |->
                         <<"listener", MapGet(listeners[e], k)[i], k, Undef, Undef>>] ]_vars

\* a Clear handled, after a Set, by an engine that has two listeners on k2 only
C24_Witness ==
  /\ ClearHandled(last)
  /\ KeysOf(listeners[last.e]) = {"k2"}
  /\ Len(ListenerCalls(last.fx)) = 2 /\ Len(Events(last.fx)) = 1
  /\ cache[last.e] = EmptyCache
  /\ db = [k \in Keys |-> Absent]
  /\ nOps["B"] = 2 /\ posted = 2

\* ------------------------------------------------------------------------
\* C25: once the Cache holds a value for key k, that value is replaced by a
\* different value only by a local set(k, .), by the hydration step of a
\* local get(k) that missed the Cache, or by the handling of an inbound
\* message; no other step (in particular none of getAll) does it.
\* ------------------------------------------------------------------------
Replaced(e, k) == cache[e][k] # Absent /\ cache'[e][k] \notin {cache[e][k], Absent}
Removed(e, k) == cache[e][k] # Absent /\ cache'[e][k] = Absent

BySet(st, e, k) == SetCall(st) /\ st.e = e /\ st.op.key = k
ByHydration(st, e, k) ==
  st.act = "complete" /\ st.e = e /\ st.op.type = "get" /\ st.op.key = k /\ st.op.ok
ByMessage(st, e, k) == st.act = "deliver" /\ st.e = e /\ MsgTouches(st.op, k)
ByGetAll(st, e, k) ==
  st.act = "complete" /\ st.e = e /\ st.op.type = "getAll" /\ st.op.ok /\ st.op.all[k] # Absent

C25_CacheRefresh ==
  [][ \A e \in Engines, k \in Keys :
        Replaced(e, k) => BySet(last', e, k) \/ ByHydration(last', e, k) \/ ByMessage(last', e, k) ]_vars

\* C25 as the code has it: the merge step of a local getAll() whose result
\* has an entry for k replaces the cached value as well, and these four are
\* the only steps that replace it; a set message is the only inbound message
\* that does. The entry is removed only by the call of a local delete(k) or
\* clear() and by an inbound Delete or Clear.
C25_CacheRefreshOrMerge ==
  [][ \A e \in Engines, k \in Keys :
        /\ Replaced(e, k) =>
             \/ BySet(last', e, k)
             \/ ByHydration(last', e, k)
             \/ ByGetAll(last', e, k)
             \/ (ByMessage(last', e, k) /\ last'.op.type = "set")
        /\ Removed(e, k) =>
             \/ (last'.act = "call" /\ last'.e = e /\ last'.op.type \in {"delete", "clear"})
             \/ (ByMessage(last', e, k) /\ last'.op.type \in {"delete", "clear"}) ]_vars

\* getAll has just replaced the value the Cache held for k2
C25_Witness ==
  /\ last.act = "complete" /\ last.op.type = "getAll" /\ last.e = "A"
  /\ last.op.all["k2"] = "v1" /\ cache["A"]["k2"] = "v1"
  /\ \E i \in 1..Len(dbq) : dbq[i].e = "A" /\ dbq[i].type = "set"

\* ------------------------------------------------------------------------
\* C30: when the persistence step of set, delete or clear fails (failure to
\* open the connection included), the operation calls no listener, dispatches
\* no event and posts no message, so that no subscriber in any context ever
\* observes a value that failed to persist: no listener call and no message
\* carries, as value or as oldValue, a value whose put failed.
\* ------------------------------------------------------------------------
WriteFailed(st) ==
  st.act \in {"call", "open", "complete"} /\ IsWrite(st.op) /\ st.out = "persist"

\* the <<key, value>> pairs the listener calls and messages of fx show
ShownNew(fx) ==
  {<<ListenerCalls(fx)[i][3], ListenerCalls(fx)[i][4]>> : i \in 1..Len(ListenerCalls(fx))}
  \cup {<<Posts(fx)[i].key, Posts(fx)[i].value>> : i \in 1..Len(Posts(fx))}
ShownOld(fx) ==
  {<<ListenerCalls(fx)[i][3], ListenerCalls(fx)[i][5]>> : i \in 1..Len(ListenerCalls(fx))}
  \cup {<<Posts(fx)[i].key, Posts(fx)[i].oldValue>> : i \in 1..Len(Posts(fx))}

C30_FailedWriteUnobserved ==
  /\ WriteFailed(last) => last.fx = <<>>
  /\ (ShownNew(last.fx) \cup ShownOld(last.fx)) \cap unsaved = {}

\* C30 as the code has it: the failed operation itself notifies and posts
\* nothing, and no value whose put failed is ever shown as the new value;
\* since the Cache is not rolled back, it can still be shown later as the
\* oldValue of the next write of the key.
C30_FailedWriteSilent ==
  /\ [](ShownNew(last.fx) \cap unsaved = {})
  /\ [][ WriteFailed(last') =>
           /\ last'.fx = <<>>
           /\ inbox' = inbox /\ posted' = posted /\ succeeded' = succeeded ]_vars

\* a put failed for a set on a key that has listeners, on an open channel
C30_Witness ==
  /\ WriteFailed(last) /\ last.act = "complete" /\ last.op.type = "set"
  /\ MapGet(listeners[last.e], last.op.key) # <<>>
  /\ ~closed[last.e]
  /\ <<last.op.key, last.op.value>> \in unsaved

\* ------------------------------------------------------------------------
\* C26: persist before publish. A write request is acknowledged as successful
\* only with its effect committed to the Persistent Store; the listeners are
\* notified and the Set, Delete or Clear message is posted only by the
\* continuation of an acknowledged successful request; a message reaches an
\* inbox only that way. Hence a receiver handles Set{k, v} only after the
\* sender's put of v was committed.
\* ------------------------------------------------------------------------
Committed(op, store) ==
  IF op.type = "set" THEN store[op.key] = op.value
  ELSE IF op.type = "delete" THEN store[op.key] = Absent
  ELSE \A k \in Keys : store[k] = Absent

Published(st) == st.act = "complete" /\ st.fx # <<>>

C26_PersistBeforePublish ==
  /\ [][ \A e \in Engines :
           (Len(done'[e]) > Len(done[e]) /\ IsWrite(LastOf(done'[e])) /\ LastOf(done'[e]).ok)
           => Committed(LastOf(done'[e]), db') ]_vars
  /\ [][ Published(last') =>
           /\ done[last'.e] # <<>> /\ last'.op = Head(done[last'.e])
           /\ IsWrite(last'.op) /\ last'.op.ok ]_vars
  /\ [][ \A r \in Engines :
           Len(inbox'[r]) > Len(inbox[r])
           => /\ Published(last') /\ last'.e # r
              /\ LastOf(inbox'[r]) = MessageOf(last'.op) ]_vars

\* a receiver with a listener handles a Set whose value the store holds
C26_Witness ==
  /\ SetHandled(last) /\ last.e = "B"
  /\ ListenerCalls(last.fx) # <<>>
  /\ db[last.op.key] = last.op.value
  /\ nFail > 0

\* ------------------------------------------------------------------------
\* C27: a get(k) that finds k neither in the Cache nor in the Persistent
\* Store returns undefined and leaves the Cache without an entry for k, so
\* that the next get(k) makes a request to the Persistent Store again; a
\* get(k) that finds k in the Cache returns the cached value without any
\* access to the Persistent Store.
\* ------------------------------------------------------------------------
GetCall(st) == st.act = "call" /\ st.op.type = "get"
GetMiss(st) == st.act = "complete" /\ st.op.type = "get" /\ st.op.ok /\ st.op.res = Undef
Requests(e) ==
  Len(waitDb[e]) + Len(SelectSeq(dbq, LAMBDA op : op.e = e)) + Len(done[e])

C27_GetMissAndHit ==
  /\ [][ GetMiss(last') =>
           /\ last'.ret = Undef /\ last'.out = "ok"
           /\ cache'[last'.e] = cache[last'.e] ]_vars
  /\ [][ \A e \in Engines :
           (GetCall(last') /\ last'.e = e /\ ~CacheHas(e, last'.op.key)) =>
             \/ (last'.out = "pending" /\ Requests(e)' = Requests(e) + 1)
             \/ (last'.out = "persist" /\ getDbState(e) = "failed") ]_vars
  /\ [][ (GetCall(last') /\ CacheHas(last'.e, last'.op.key)) =>
           /\ last'.out = "ok" /\ last'.ret = cache[last'.e][last'.op.key]
           /\ UNCHANGED <<cache, dbPromise, promState, waitDb, dbq, done, db>> ]_vars

\* the second of two awaited get calls found no entry again
C27_Witness ==
  /\ GetMiss(last) /\ last.e = "A"
  /\ Len(Chain("A", "k2")) = 2
  /\ Chain("A", "k2")[1].type = "get" /\ Chain("A", "k2")[1].st = "ok"
  /\ Chain("A", "k2")[2].id = last.op.id
  /\ cache["A"]["k2"] = Absent

\* ------------------------------------------------------------------------
\* C28: calling the closure returned by subscribe(k, L) removes exactly L
\* from the listeners of k and leaves every other listener of k and every
\* other key as they were; in every reachable state the Subscription
\* Registry holds no key whose listener set is empty.
\* ------------------------------------------------------------------------
Without(ls, l) == SelectSeq(ls, LAMBDA x : x # l)
NoEmptyListenerSet ==
  \A e \in Engines : \A i \in 1..Len(listeners[e]) : listeners[e][i].ls # <<>>

C28_UnsubscribeExact ==
  /\ []NoEmptyListenerSet
  /\ [][ last'.act = "unsubscribe" =>
           \A e \in Engines, k \in Keys :
             MapGet(listeners'[e], k) =
               IF e = last'.e /\ k = last'.op.key
               THEN Without(MapGet(listeners[e], k), last'.op.value)
               ELSE MapGet(listeners[e], k) ]_vars

\* L1 was removed from k2, L2 stays on k2 and L1 on k1
C28_Witness ==
  /\ last.act = "unsubscribe" /\ last.out = "ok"
  /\ last.op.key = "k2" /\ last.op.value = "L1"
  /\ MapGet(listeners["A"], "k2") = <<"L2">>
  /\ MapGet(listeners["A"], "k1") = <<"L1">>
  /\ <<"k2", "L1">> \in handles["A"]

\* ------------------------------------------------------------------------
\* C29: validator invariant. In every reachable state of an engine that has
\* a validator for key k, the Cache holds for k no value the validator
\* rejects, whether the value came from a local set, from an inbound Set
\* message or from the hydration of get or getAll.
\* ------------------------------------------------------------------------
C29_ValidatorInvariant ==
  \A e \in Engines, k \in Keys :
    (HasValidator(e, k) /\ CacheHas(e, k)) => ~ValidatorThrows(e, k, cache[e][k])

\* C33 — After destroy() an engine invokes no local listener, emits no Local
\* Event Bus event, posts no message and applies no inbound message, also
\* for the set/delete/clear calls that were awaiting the Persistent Store
\* when destroy() was called: a step of a destroyed engine that completes a
\* call or handles a message has no effect at all.
C33_SilentAfterDestroy ==
  (last.act \in {"complete", "deliver"} /\ last.e \in Engines /\ closed[last.e])
    => last.fx = <<>>

\* C35 — Caller retry after a storage failure: when the opening of the
\* Persistent Store connection has failed, a later operation of the same
\* engine that needs the connection opens it again (a new open is started);
\* and a new open is started only when the engine holds no connection
\* promise or a failed one, so that a connection that opened is opened once
\* and reused until destroy().
OpenFailed(e) == dbPromise[e] # 0 /\ promState[e][dbPromise[e]] = "failed"
NeedsDb(st) ==
  /\ st.act = "call"
  /\ st.op.type \in {"set", "delete", "clear"}
  /\ st.out # "validation"
Reopens(e) == Len(promState'[e]) = Len(promState[e]) + 1
C35_RetryReopens ==
  [][\A e \in Engines :
       /\ (OpenFailed(e) /\ last'.e = e /\ NeedsDb(last')) => Reopens(e)
       /\ Reopens(e) => (dbPromise[e] = 0 \/ OpenFailed(e))]_vars

\* C32 — Cache/store coherence of a single context: with one engine, no
\* other writer and no failure, whenever no operation is in flight every key
\* held in the Cache has the value of its Persistent Store entry, whatever
\* the interleaving of the unawaited get, set, delete, getAll and clear calls.
C32_SoloCoherence ==
  Idle("A") => \A k \in Keys : CacheHas("A", k) => CacheGet("A", k) = db[k]

\* C36 — Event-name isolation: a subscribeToKey(ch, key, listener) subscriber
\* is invoked only for changes of exactly that key made by engines configured
\* with exactly that channel name, whatever the strings (':' included): every
\* handler a completed set invokes was registered for the engine's
\* channelName and for the key that was set.
HandlerOf(fx, i) == handlers[window[last.e]][Handled(fx)[i][2]]
C36_EventNameIsolation ==
  (last.act = "complete" /\ last.op.type = "set")
    => \A i \in 1..Len(Handled(last.fx)) :
         /\ HandlerOf(last.fx, i).ch = channelName
         /\ HandlerOf(last.fx, i).key = last.op.key

\* C31 — For each successful set(k, v) the Local Event Bus event of
\* (channelName, k) is dispatched exactly once in each execution context,
\* also when several engines with the same channel name live in that
\* context: the writing engine dispatches it once, and an engine that
\* handles the Set message in the window of the writer does not dispatch it
\* again (with two engines the writer is the other engine).
SharesWindow(e) == \E s \in Engines \ {e} : window[s] = window[e]
C31_EventOncePerContext ==
  /\ (last.act = "complete" /\ last.op.type = "set" /\ last.out = "ok")
       => Len(Events(last.fx)) = 1
  /\ (last.act = "deliver" /\ last.op.type = "set" /\ SharesWindow(last.e))
       => Events(last.fx) = <<>>

\* C34 — An unsubscribe function affects only the registration that returned
\* it: a registration whose own closure was never called is still in the
\* registry, whatever other closures (a stale one of an earlier registration
\* of the same listener, or the one of a second registration of the
\* identical listener) were called.
IsRegistered(e, k, l) == SeqHas(MapGet(listeners[e], k), l)
C34_OwnRegistrationOnly ==
  \A e \in Engines : \A i \in 1..Len(issued[e]) :
    ~issued[e][i].called => IsRegistered(e, issued[e][i].key, issued[e][i].l)

\* C34 as amended: the registry holds a listener at most once per key, and a
\* call of an unsubscribe function removes the listener it was created with
\* from the key it was created for, whichever subscribe call registered it,
\* and leaves every other listener and every other key as they were.
NoDuplicateListener ==
  \A e \in Engines : \A k \in Keys : \A i, j \in 1..Len(MapGet(listeners[e], k)) :
    MapGet(listeners[e], k)[i] = MapGet(listeners[e], k)[j] => i = j
C34_UnsubscribeByListener ==
  /\ []NoDuplicateListener
  /\ [][\A e \in Engines : \A k \in Keys, l \in ListenerIds :
          (last'.act = "unsubscribe" /\ last'.e = e)
          => IF last'.op.key = k /\ last'.op.value = l
             THEN ~IsRegistered(e, k, l)'
             ELSE IsRegistered(e, k, l)' <=> IsRegistered(e, k, l)]_vars

\* a stale closure, or the closure of the other registration of the same
\* listener, was called: the listener is gone although a closure returned
\* for it was never called, and the other listener of the key is still there
C34_Witness ==
  /\ last.act = "unsubscribe" /\ last.e = "A" /\ last.op.key = "k2" /\ last.op.value = "L1"
  /\ \E i \in 1..Len(issued["A"]) :
       /\ issued["A"][i] = [key |-> "k2", l |-> "L1", called |-> FALSE]
       /\ i # last.op.id
  /\ ~IsRegistered("A", "k2", "L1")
  /\ IsRegistered("A", "k2", "L2")

====
